---- MODULE Spec2Model ----
(***************************************************************************)
(* Resource-graph assembly and deferred-output composition of the three   *)
(* deployment programs of the repository:                                 *)
(*   ContainerApp    src/components/container-app/__main__.py             *)
(*   ChatbotService  src/components/ecs-chatbot-service/__main__.py       *)
(*   Infra           src/chatbot-service/infra/__main__.py                *)
(* A program run registers resource requests (the plan); the provisioning *)
(* engine then issues each request once the requests whose outputs it      *)
(* references have resolved.                                               *)
(***************************************************************************)
EXTENDS Integers, Sequences, FiniteSets, TLC

VARIABLES desc, phase, error, requests, status, issues, inflightAtFail,
          firstFailed, url, metrics_url, image_url, container_def, loaded,
          outcome

vars == <<desc, phase, error, requests, status, issues, inflightAtFail,
          firstFailed, url, metrics_url, image_url, container_def, loaded,
          outcome>>

(***************************************************************************)
(* Bounds                                                                  *)
(***************************************************************************)
\* largest number of availability-zone names the engine returns
MaxZones == 3
\* number of resource operations the engine runs at once
MaxParallel == 2

(***************************************************************************)
(* Values                                                                  *)
(***************************************************************************)
\* Python None / empty string: both are falsy in the tests of the programs
None == ""
\* value of a deferred output that has not resolved
Unresolved == "<unresolved>"
\* what formatting an Output object into a string yields
OutputStr == "<Output>"
\* an Output object standing where a plain value is expected
OutputObj == "<Output object>"

Components == {"ContainerApp", "ChatbotService", "Infra"}
Keys == {"MODEL", "OPENAI_API_KEY"}
KeySeqs == {<<>>, <<"MODEL">>, <<"OPENAI_API_KEY">>,
            <<"MODEL", "OPENAI_API_KEY">>, <<"OPENAI_API_KEY", "MODEL">>}
DnsNames == {"example-dns", "lb-1.elb.amazonaws.com"}
SubnetIdLists == {<<>>, <<"subnet-a">>, <<"subnet-a", "subnet-b">>}
\* zone counts: a region has at least two availability zones
ZoneCounts == 2..MaxZones
\* values of app_port
Ports == {80, 8080}
\* numbers of parts a decoded registry token splits into at ":"
CredParts == {1, 2, 3}

Range(s) == {s[i] : i \in DOMAIN s}

Min(a, b) == IF a < b THEN a ELSE b

(***************************************************************************)
(* Resource requests                                                       *)
(***************************************************************************)
\* a request with no attribute set.  refs: the requests whose outputs are
\* passed to it as inputs, which the engine waits for; uses: the requests
\* whose outputs its parameters are written from (a superset of refs: an
\* Output formatted into a string or handed to json.dumps is used without
\* being waited for); raises: building its parameters raises, so that the
\* request is never sent; invalid: the continuation that reads its result
\* raises; parts: the pieces a string parameter is formatted from
Req(id, kind, refs) ==
    [id |-> id, kind |-> kind, refs |-> refs, uses |-> refs,
     dependsOn |-> {}, raises |-> FALSE, invalid |-> FALSE,
     vpc |-> None, subnets |-> <<>>, port |-> 0, protocol |-> None,
     action |-> None, cert |-> None, secret_id |-> None, resources |-> <<>>,
     container_name |-> None, parts |-> <<>>]

\* the deferred attribute attr of the request id, as a parameter value
Ref(id, attr) == "${" \o id \o "." \o attr \o "}"

Ids(reqs) == {reqs[i].id : i \in DOMAIN reqs}

OfKind(reqs, k) == {i \in DOMAIN reqs : reqs[i].kind = k}

\* every request the request r waits for
Deps(r) == r.refs \cup r.dependsOn

\* every request the request r lists in dependsOn or takes a parameter from
References(r) == r.uses \cup r.dependsOn

RECURSIVE Concat(_)
Concat(ss) == IF ss = <<>> THEN <<>> ELSE Head(ss) \o Concat(Tail(ss))

(***************************************************************************)
(* JSON: json.dumps and json.loads                                         *)
(***************************************************************************)
\* the values json.dumps is handed: str, int, bool, list and dict (its
\* members in insertion order), and an Output object
JStr(s) == [t |-> "str", v |-> s]
JNum(n) == [t |-> "num", v |-> n]
JBool(b) == [t |-> "bool", v |-> b]
JArr(elems) == [t |-> "arr", v |-> elems]
JObj(members) == [t |-> "obj", v |-> members]
JNull == [t |-> "null", v |-> None]
Member(k, j) == [k |-> k, v |-> j]
\* a str, or the Output object in its place
JText(s) == IF s = OutputObj THEN [t |-> "output", v |-> s] ELSE JStr(s)

\* json.dumps raises TypeError on a value that is not serializable
RECURSIVE Serializable(_)
Serializable(j) ==
    CASE j.t = "arr" -> \A i \in DOMAIN j.v : Serializable(j.v[i])
      [] j.t = "obj" -> \A i \in DOMAIN j.v : Serializable(j.v[i].v)
      [] j.t = "output" -> FALSE
      [] OTHER -> TRUE

\* the JSON text as its sequence of tokens: punctuation, literals, string
\* tokens (s: the text between the quotes) and number tokens (n)
Tok(k, s, n) == [k |-> k, s |-> s, n |-> n]
Punct(c) == Tok(c, "", 0)

\* the elements written one after the other with a comma between them
CommaSeparated(texts) ==
    Concat([i \in DOMAIN texts |->
               (IF i > 1 THEN <<Punct(",")>> ELSE <<>>) \o texts[i]])

RECURSIVE Dumps(_)
Dumps(j) ==
    CASE j.t = "str" -> <<Tok("str", j.v, 0)>>
      [] j.t = "num" -> <<Tok("num", "", j.v)>>
      [] j.t = "bool" -> <<Punct(IF j.v THEN "true" ELSE "false")>>
      [] j.t = "null" -> <<Punct("null")>>
      [] j.t = "arr" ->
            <<Punct("[")>>
            \o CommaSeparated([i \in DOMAIN j.v |-> Dumps(j.v[i])])
            \o <<Punct("]")>>
      [] j.t = "obj" ->
            <<Punct("{")>>
            \o CommaSeparated([i \in DOMAIN j.v |->
                   <<Tok("str", j.v[i].k, 0), Punct(":")>> \o Dumps(j.v[i].v)])
            \o <<Punct("}")>>

\* dict assignment: a key already present keeps its place and takes the
\* new value
DictPut(members, k, j) ==
    IF \E i \in DOMAIN members : members[i].k = k
    THEN [i \in DOMAIN members |->
             IF members[i].k = k THEN Member(k, j) ELSE members[i]]
    ELSE Append(members, Member(k, j))

\* the parser of json.loads: the value that starts at token i and the
\* index of the token after it
RECURSIVE ParseValue(_, _), ParseElems(_, _, _), ParseMembers(_, _, _)
ParseValue(toks, i) ==
    CASE toks[i].k = "str" -> [v |-> JStr(toks[i].s), i |-> i + 1]
      [] toks[i].k = "num" -> [v |-> JNum(toks[i].n), i |-> i + 1]
      [] toks[i].k = "true" -> [v |-> JBool(TRUE), i |-> i + 1]
      [] toks[i].k = "false" -> [v |-> JBool(FALSE), i |-> i + 1]
      [] toks[i].k = "null" -> [v |-> JNull, i |-> i + 1]
      [] toks[i].k = "[" -> ParseElems(toks, i + 1, <<>>)
      [] toks[i].k = "{" -> ParseMembers(toks, i + 1, <<>>)

ParseElems(toks, i, acc) ==
    IF toks[i].k = "]" THEN [v |-> JArr(acc), i |-> i + 1]
    ELSE LET e == ParseValue(toks, IF toks[i].k = "," THEN i + 1 ELSE i)
         IN ParseElems(toks, e.i, Append(acc, e.v))

ParseMembers(toks, i, acc) ==
    IF toks[i].k = "}" THEN [v |-> JObj(acc), i |-> i + 1]
    ELSE LET j == IF toks[i].k = "," THEN i + 1 ELSE i
             e == ParseValue(toks, j + 2)
         IN ParseMembers(toks, e.i, DictPut(acc, toks[j].s, e.v))

Loads(toks) == ParseValue(toks, 1).v

\* the value of the key k of a JSON object
Get(j, k) == j.v[CHOOSE i \in DOMAIN j.v : j.v[i].k = k].v

KeysOf(j) == {j.v[i].k : i \in DOMAIN j.v}

(***************************************************************************)
(* ContainerApp.__init__                                                   *)
(***************************************************************************)
\* name of the component instance (the stack passes "chat-app")
CaName == "chat-app"

CaValid(d) == ~(d.app_path = None /\ d.image = None)

CaSecrets(d) ==
    Concat([i \in DOMAIN d.secrets |->
        <<Req(d.secrets[i], "Secret", {}),
          [Req(d.secrets[i] \o "-version", "SecretVersion", {d.secrets[i]})
              EXCEPT !.secret_id = Ref(d.secrets[i], "id")]>>])

\* variant: the supplied network is taken only with two or more subnets
CaReuseNetworkTwoSubnets(d) ==
    d.vpc_id # None /\ Len(d.public_subnet_ids) >= 2

CaReuseNetwork(d) == d.vpc_id # None /\ d.public_subnet_ids # <<>>

\* number of zones the subnet loop runs over: names[:2]
CaZones(d) == Min(d.zones, 2)

CaSubnetId(i) == CaName \o "-subnet-" \o ToString(i)

CaNetwork(d) ==
    IF CaReuseNetwork(d) THEN <<>>
    ELSE <<Req(CaName \o "-vpc", "Vpc", {}),
           Req(CaName \o "-igw", "InternetGateway", {CaName \o "-vpc"}),
           Req(CaName \o "-public-rt", "RouteTable",
               {CaName \o "-vpc", CaName \o "-igw"})>>
         \o Concat([i \in 1..CaZones(d) |->
              <<[Req(CaSubnetId(i), "Subnet", {CaName \o "-vpc"})
                    EXCEPT !.vpc = Ref(CaName \o "-vpc", "id")],
                Req(CaSubnetId(i) \o "-assoc", "RouteTableAssociation",
                    {CaSubnetId(i), CaName \o "-public-rt"})>>])

\* vpc.id as the later requests see it
CaVpcId(d) == IF CaReuseNetwork(d) THEN d.vpc_id ELSE Ref(CaName \o "-vpc", "id")

CaVpcRefs(d) == IF CaReuseNetwork(d) THEN {} ELSE {CaName \o "-vpc"}

\* the list subnets as the later requests see it
CaSubnets(d) ==
    IF CaReuseNetwork(d) THEN d.public_subnet_ids
    ELSE [i \in 1..CaZones(d) |-> Ref(CaSubnetId(i), "id")]

CaSubnetRefs(d) ==
    IF CaReuseNetwork(d) THEN {} ELSE {CaSubnetId(i) : i \in 1..CaZones(d)}

CaSecurityGroup(d) ==
    <<[Req(CaName \o "-web-sg", "SecurityGroup", CaVpcRefs(d))
          EXCEPT !.vpc = CaVpcId(d)]>>

CaCluster(d) == <<Req(CaName \o "-cluster", "Cluster", {})>>

CaLoadBalancer(d) ==
    <<[Req(CaName \o "-lb", "LoadBalancer",
           {CaName \o "-web-sg"} \cup CaSubnetRefs(d))
          EXCEPT !.subnets = CaSubnets(d)],
      [Req(CaName \o "-tg", "TargetGroup", CaVpcRefs(d))
          EXCEPT !.vpc = CaVpcId(d), !.port = d.app_port, !.protocol = "HTTP"]>>

\* variant: with a certificate the HTTP listener still forwards
CaListenersForwardBoth(d) ==
    IF d.alb_cert_arn # None
    THEN <<[Req(CaName \o "-https-listener", "Listener",
                {CaName \o "-lb", CaName \o "-tg"})
               EXCEPT !.port = 443, !.protocol = "HTTPS",
                      !.cert = d.alb_cert_arn, !.action = "forward"],
           [Req(CaName \o "-http-listener", "Listener",
                {CaName \o "-lb", CaName \o "-tg"})
               EXCEPT !.port = 80, !.protocol = "HTTP", !.action = "forward"]>>
    ELSE <<[Req(CaName \o "-http-listener", "Listener",
                {CaName \o "-lb", CaName \o "-tg"})
               EXCEPT !.port = 80, !.protocol = "HTTP", !.action = "forward"]>>

\* variant: the HTTPS listener is not given the target group
CaListenersHttpsWithoutTargetGroup(d) ==
    IF d.alb_cert_arn # None
    THEN <<[Req(CaName \o "-https-listener", "Listener", {CaName \o "-lb"})
               EXCEPT !.port = 443, !.protocol = "HTTPS",
                      !.cert = d.alb_cert_arn, !.action = "forward"],
           [Req(CaName \o "-http-listener", "Listener", {CaName \o "-lb"})
               EXCEPT !.port = 80, !.protocol = "HTTP",
                      !.action = "redirect:HTTPS:443:HTTP_301"]>>
    ELSE <<[Req(CaName \o "-http-listener", "Listener",
                {CaName \o "-lb", CaName \o "-tg"})
               EXCEPT !.port = 80, !.protocol = "HTTP", !.action = "forward"]>>

CaListeners(d) ==
    IF d.alb_cert_arn # None
    THEN <<[Req(CaName \o "-https-listener", "Listener",
                {CaName \o "-lb", CaName \o "-tg"})
               EXCEPT !.port = 443, !.protocol = "HTTPS",
                      !.cert = d.alb_cert_arn, !.action = "forward"],
           [Req(CaName \o "-http-listener", "Listener", {CaName \o "-lb"})
               EXCEPT !.port = 80, !.protocol = "HTTP",
                      !.action = "redirect:HTTPS:443:HTTP_301"]>>
    ELSE <<[Req(CaName \o "-http-listener", "Listener",
                {CaName \o "-lb", CaName \o "-tg"})
               EXCEPT !.port = 80, !.protocol = "HTTP", !.action = "forward"]>>

CaRoles(d) ==
    <<Req(CaName \o "-task-exec-role", "Role", {}),
      Req(CaName \o "-task-exec-policy", "RolePolicyAttachment",
          {CaName \o "-task-exec-role"})>>

\* variant: the policy document lists the first ARN only
CaSecretsPolicyFirstArn(d) ==
    IF Len(d.secrets) > 0
    THEN <<[Req(CaName \o "-secrets-manager-policy", "Policy", Range(d.secrets))
               EXCEPT !.resources = <<Ref(d.secrets[1], "arn")>>],
           Req(CaName \o "-secrets-manager-policy-attachment",
               "RolePolicyAttachment",
               {CaName \o "-task-exec-role", CaName \o "-secrets-manager-policy"})>>
    ELSE <<>>

\* resources: "Resource": x[0], the list of the ARNs of secret_arns_map
CaSecretsPolicy(d) ==
    IF Len(d.secrets) > 0
    THEN <<[Req(CaName \o "-secrets-manager-policy", "Policy", Range(d.secrets))
               EXCEPT !.resources = [i \in DOMAIN d.secrets |->
                                        Ref(d.secrets[i], "arn")]],
           Req(CaName \o "-secrets-manager-policy-attachment",
               "RolePolicyAttachment",
               {CaName \o "-task-exec-role", CaName \o "-secrets-manager-policy"})>>
    ELSE <<>>

CaLogGroup(d) == <<Req(CaName \o "-logs", "LogGroup", {})>>

\* get_registry_info accepts the decoded token when splitting it at ":"
\* gives exactly two parts
ValidCredentials(parts) == parts = 2

CaImage(d) ==
    IF d.app_path # None
    THEN <<Req(CaName \o "-repo", "Repository", {}),
           [Req(CaName \o "-registry", "CredentialExchange", {CaName \o "-repo"})
              EXCEPT !.invalid = ~ValidCredentials(d.cred_parts)],
           Req(CaName \o "-image", "ImageBuild",
               {CaName \o "-registry", CaName \o "-repo"})>>
    ELSE <<>>

\* the requests image_url waits for: repository.repository_url only, the
\* digest is formatted into the string as an Output object
CaImageUrlRefs(d) == IF d.app_path # None THEN {CaName \o "-repo"} ELSE {}

\* variant: the environment entries are written in reverse order
CaContainerDefEnvReversed(d, image_uri, log_group_name, secret_arns) ==
    <<[name |-> "app",
       image |-> image_uri,
       essential |-> TRUE,
       portMappings |-> <<[containerPort |-> d.app_port,
                           hostPort |-> d.app_port, protocol |-> "tcp"]>>,
       environment |-> [i \in DOMAIN d.env |->
                           [name |-> d.env[Len(d.env) + 1 - i],
                            value |-> "value-of-" \o d.env[Len(d.env) + 1 - i]]],
       secrets |-> [i \in DOMAIN d.secrets |->
                       [name |-> d.secrets[i],
                        valueFrom |-> secret_arns[d.secrets[i]]]],
       logConfiguration |->
           [logDriver |-> "awslogs",
            options |-> [group |-> log_group_name, region |-> "us-west-2",
                         stream_prefix |-> "app"]]]>>

\* the structure the container_def continuation hands to json.dumps
CaContainerDef(d, image_uri, log_group_name, secret_arns) ==
    <<[name |-> "app",
       image |-> image_uri,
       essential |-> TRUE,
       portMappings |-> <<[containerPort |-> d.app_port,
                           hostPort |-> d.app_port, protocol |-> "tcp"]>>,
       environment |-> [i \in DOMAIN d.env |->
                           [name |-> d.env[i], value |-> "value-of-" \o d.env[i]]],
       secrets |-> [i \in DOMAIN d.secrets |->
                       [name |-> d.secrets[i],
                        valueFrom |-> secret_arns[d.secrets[i]]]],
       logConfiguration |->
           [logDriver |-> "awslogs",
            options |-> [group |-> log_group_name, region |-> "us-west-2",
                         stream_prefix |-> "app"]]]>>

\* the same structure as json.dumps sees it
CaContainerJson(c) ==
    JArr([n \in DOMAIN c |->
        JObj(<<Member("name", JText(c[n].name)),
               Member("image", JText(c[n].image)),
               Member("essential", JBool(c[n].essential)),
               Member("portMappings", JArr([i \in DOMAIN c[n].portMappings |->
                   JObj(<<Member("containerPort",
                                 JNum(c[n].portMappings[i].containerPort)),
                          Member("hostPort",
                                 JNum(c[n].portMappings[i].hostPort)),
                          Member("protocol",
                                 JText(c[n].portMappings[i].protocol))>>)])),
               Member("environment", JArr([i \in DOMAIN c[n].environment |->
                   JObj(<<Member("name", JText(c[n].environment[i].name)),
                          Member("value", JText(c[n].environment[i].value))>>)])),
               Member("secrets", JArr([i \in DOMAIN c[n].secrets |->
                   JObj(<<Member("name", JText(c[n].secrets[i].name)),
                          Member("valueFrom",
                                 JText(c[n].secrets[i].valueFrom))>>)])),
               Member("logConfiguration",
                   JObj(<<Member("logDriver",
                                 JText(c[n].logConfiguration.logDriver)),
                          Member("options",
                              JObj(<<Member("awslogs-group",
                                       JText(c[n].logConfiguration.options.group)),
                                     Member("awslogs-region",
                                       JText(c[n].logConfiguration.options.region)),
                                     Member("awslogs-stream-prefix",
                                       JText(c[n].logConfiguration.options
                                                 .stream_prefix))>>))>>))>>)])

\* the requests whose outputs image_url is written from
CaImageUrlUses(d) ==
    IF d.app_path # None THEN {CaName \o "-repo", CaName \o "-image"} ELSE {}

CaTaskDefinition(d) ==
    <<[Req(CaName \o "-task", "TaskDefinition",
           {CaName \o "-task-exec-role", CaName \o "-logs"}
               \cup CaImageUrlRefs(d) \cup Range(d.secrets))
          EXCEPT !.uses = @ \cup CaImageUrlUses(d)]>>

CaServiceDependsOn == {CaName \o "-lb"}

\* variant: the binding uses the port of the security-group rule, 8080
CaServiceFixedPort(d) ==
    <<[Req(CaName \o "-service", "Service",
           {CaName \o "-cluster", CaName \o "-task", CaName \o "-tg",
            CaName \o "-web-sg"} \cup CaSubnetRefs(d))
          EXCEPT !.dependsOn = CaServiceDependsOn,
                 !.subnets = CaSubnets(d), !.port = 8080,
                 !.container_name = "app"]>>

\* port, container_name: the load_balancers binding of the service
CaService(d) ==
    <<[Req(CaName \o "-service", "Service",
           {CaName \o "-cluster", CaName \o "-task", CaName \o "-tg",
            CaName \o "-web-sg"} \cup CaSubnetRefs(d))
          EXCEPT !.dependsOn = CaServiceDependsOn,
                 !.subnets = CaSubnets(d), !.port = d.app_port,
                 !.container_name = "app"]>>

\* the run of __init__: the error it raises and the requests registered
\* up to the point where it returns or raises
ContainerAppPlan(d) ==
    IF ~CaValid(d)
    THEN [error |-> "ValueError", requests |-> <<>>]
    ELSE [error |-> None,
          requests |-> CaSecrets(d) \o CaNetwork(d) \o CaSecurityGroup(d)
                       \o CaCluster(d) \o CaLoadBalancer(d) \o CaListeners(d)
                       \o CaRoles(d) \o CaSecretsPolicy(d) \o CaLogGroup(d)
                       \o CaImage(d) \o CaTaskDefinition(d) \o CaService(d)]

(***************************************************************************)
(* ChatbotService.__init__                                                 *)
(***************************************************************************)
CsName == "chatbot"

CsVpc(d) ==
    IF d.vpc_id # None THEN <<>> ELSE <<Req(CsName \o "-vpc", "Vpc", {})>>

CsVpcId(d) == IF d.vpc_id # None THEN d.vpc_id ELSE Ref(CsName \o "-vpc", "id")

CsVpcRefs(d) == IF d.vpc_id # None THEN {} ELSE {CsName \o "-vpc"}

CsSubnet(d) ==
    IF d.public_subnet_ids # <<>> THEN <<>>
    ELSE <<[Req(CsName \o "-subnet", "Subnet", CsVpcRefs(d))
               EXCEPT !.vpc = CsVpcId(d)]>>

CsSubnets(d) ==
    IF d.public_subnet_ids # <<>> THEN d.public_subnet_ids
    ELSE <<Ref(CsName \o "-subnet", "id")>>

CsSubnetRefs(d) ==
    IF d.public_subnet_ids # <<>> THEN {} ELSE {CsName \o "-subnet"}

\* resource_id is the continuation of svc.id: it formats cluster.name, an
\* Output object, and the last segment of the service id into the string
CsAutoscaling(d) ==
    IF d.enable_autoscaling
    THEN <<[Req(CsName \o "-asg-target", "AutoscalingTarget", {CsName \o "-svc"})
               EXCEPT !.uses = @ \cup {CsName \o "-cluster"},
                      !.parts = <<"service/", OutputStr, "/",
                                  Ref(CsName \o "-svc", "id")>>]>>
    ELSE <<>>

\* the values of the env and secrets maps of the arguments
CsEnvValue(k) == "value-of-" \o k

CsSecretArn(k) == "arn-of-" \o k

\* the dict container of _render_container_defs, as json.dumps sees it
CsContainer(image_uri, env, secrets, log_group_name) ==
    JObj(<<Member("name", JText("app")),
           Member("image", JText(image_uri)),
           Member("essential", JBool(TRUE)),
           Member("portMappings",
               JArr(<<JObj(<<Member("containerPort", JNum(80)),
                             Member("protocol", JText("tcp"))>>)>>)),
           Member("environment", JArr([i \in DOMAIN env |->
               JObj(<<Member("name", JText(env[i])),
                      Member("value", JText(CsEnvValue(env[i])))>>)])),
           Member("secrets", JArr([i \in DOMAIN secrets |->
               JObj(<<Member("name", JText(secrets[i])),
                      Member("valueFrom", JText(CsSecretArn(secrets[i])))>>)])),
           Member("logConfiguration",
               JObj(<<Member("logDriver", JText("awslogs")),
                      Member("options",
                          JObj(<<Member("awslogs-group", JText(log_group_name)),
                                 Member("awslogs-region", JText("us-west-2")),
                                 Member("awslogs-stream-prefix",
                                        JText("ecs"))>>))>>))>>)

\* _render_container_defs: the JSON text, or no text when json.dumps raises
RenderContainerDefs(image_uri, env, secrets, log_group_name) ==
    LET j == JArr(<<CsContainer(image_uri, env, secrets, log_group_name)>>)
    IN IF Serializable(j) THEN Dumps(j) ELSE <<>>

\* what the task definition passes as log_group_name: logs.name, an Output
CsLogGroupName == OutputObj

\* container_definitions: the continuation of Output.all(env, secrets)
\* calls _render_container_defs, and the request is sent only if it returns
CsTaskDefinition(d) ==
    [Req(CsName \o "-td", "TaskDefinition", {CsName \o "-task-role"})
        EXCEPT !.uses = @ \cup {CsName \o "-logs"},
               !.raises = RenderContainerDefs(d.image, d.env, d.secrets,
                                              CsLogGroupName) = <<>>]

ChatbotServicePlan(d) ==
    [error |-> None,
     requests |->
        CsVpc(d) \o CsSubnet(d)
        \o <<Req(CsName \o "-cluster", "Cluster", {}),
             Req(CsName \o "-task-role", "Role", {}),
             Req(CsName \o "-logs", "LogGroup", {}),
             CsTaskDefinition(d),
             [Req(CsName \o "-sg", "SecurityGroup", CsVpcRefs(d))
                 EXCEPT !.vpc = CsVpcId(d)],
             [Req(CsName \o "-alb", "LoadBalancer",
                  {CsName \o "-sg"} \cup CsSubnetRefs(d))
                 EXCEPT !.subnets = CsSubnets(d)],
             [Req(CsName \o "-tg", "TargetGroup", CsVpcRefs(d))
                 EXCEPT !.vpc = CsVpcId(d), !.port = 80, !.protocol = "HTTP"],
             [Req(CsName \o "-listener", "Listener",
                  {CsName \o "-alb", CsName \o "-tg"})
                 EXCEPT !.port = 80, !.protocol = "HTTP", !.action = "forward"],
             [Req(CsName \o "-svc", "Service",
                  {CsName \o "-cluster", CsName \o "-sg", CsName \o "-tg",
                   CsName \o "-td"} \cup CsSubnetRefs(d))
                 EXCEPT !.subnets = CsSubnets(d), !.port = 80,
                        !.container_name = "app"]>>
        \o CsAutoscaling(d)]

(***************************************************************************)
(* The stack program src/chatbot-service/infra/__main__.py                 *)
(***************************************************************************)
\* the configured publicSubnetIds, when set, lists at least one id
InReuseNetwork(d) == d.vpc_id # None /\ d.public_subnet_ids # <<>>

InZones(d) == Min(d.zones, 2)

InSubnetId(i) == "chat-subnet-" \o ToString(i)

InNetwork(d) ==
    IF InReuseNetwork(d) THEN <<>>
    ELSE <<Req("chat-vpc", "Vpc", {}),
           Req("chat-igw", "InternetGateway", {"chat-vpc"}),
           Req("chat-public-rt", "RouteTable", {"chat-vpc", "chat-igw"})>>
         \o Concat([i \in 1..InZones(d) |->
              <<[Req(InSubnetId(i), "Subnet", {"chat-vpc"})
                    EXCEPT !.vpc = Ref("chat-vpc", "id")],
                Req(InSubnetId(i) \o "-assoc", "RouteTableAssociation",
                    {InSubnetId(i), "chat-public-rt"})>>])

InVpcId(d) == IF InReuseNetwork(d) THEN d.vpc_id ELSE Ref("chat-vpc", "id")

InVpcRefs(d) == IF InReuseNetwork(d) THEN {} ELSE {"chat-vpc"}

InSubnets(d) ==
    IF InReuseNetwork(d) THEN d.public_subnet_ids
    ELSE [i \in 1..InZones(d) |-> Ref(InSubnetId(i), "id")]

InSubnetRefs(d) ==
    IF InReuseNetwork(d) THEN {} ELSE {InSubnetId(i) : i \in 1..InZones(d)}

InListeners(d) ==
    IF d.alb_cert_arn # None
    THEN <<[Req("chat-https-listener", "Listener", {"chat-app-lb", "chat-app-tg"})
               EXCEPT !.port = 443, !.protocol = "HTTPS",
                      !.cert = d.alb_cert_arn, !.action = "forward"],
           [Req("chat-http-listener", "Listener", {"chat-app-lb"})
               EXCEPT !.port = 80, !.protocol = "HTTP",
                      !.action = "redirect:HTTPS:443:HTTP_301"]>>
    ELSE <<[Req("chat-http-listener", "Listener", {"chat-app-lb", "chat-app-tg"})
               EXCEPT !.port = 80, !.protocol = "HTTP", !.action = "forward"]>>

InImage(d) ==
    <<Req("chat-app-repo", "Repository", {}),
      [Req("chat-app-registry", "CredentialExchange", {"chat-app-repo"})
          EXCEPT !.invalid = ~ValidCredentials(d.cred_parts)],
      Req("chat-app-image", "ImageBuild", {"chat-app-registry", "chat-app-repo"})>>

\* the value of the secret configuration entry openaiApiKey
InOpenAiApiKey == "value-of-OPENAI_API_KEY"

\* the list the container_def continuation hands to json.dumps
InContainerDef(repository_url, digest, log_group_name, api_key) ==
    JArr(<<JObj(<<Member("name", JText("chat-app")),
                  Member("image", JText(repository_url \o "@" \o digest)),
                  Member("essential", JBool(TRUE)),
                  Member("portMappings",
                      JArr(<<JObj(<<Member("containerPort", JNum(8080)),
                                    Member("hostPort", JNum(8080)),
                                    Member("protocol", JText("tcp"))>>)>>)),
                  Member("environment",
                      JArr(<<JObj(<<Member("name", JText("OPENAI_API_KEY")),
                                    Member("value", JText(api_key))>>)>>)),
                  Member("logConfiguration",
                      JObj(<<Member("logDriver", JText("awslogs")),
                             Member("options",
                                 JObj(<<Member("awslogs-group",
                                               JText(log_group_name)),
                                        Member("awslogs-region",
                                               JText("us-west-2")),
                                        Member("awslogs-stream-prefix",
                                               JText("chat-app"))>>))>>))>>)>>)

\* the requests the container_def continuation waits for
InContainerDefInputs == {"chat-app-repo", "chat-app-image", "chat-app-loggrp"}

InTaskDefinition ==
    <<Req("chat-app-task", "TaskDefinition",
          {"chat-task-exec-role", "chat-app-repo", "chat-app-image",
           "chat-app-loggrp"})>>

InServiceDependsOn == {"chat-app-lb"}

InService(d) ==
    <<[Req("chat-app-service", "Service",
           {"chat-cluster", "chat-app-task", "chat-app-tg", "chat-web-sg"}
               \cup InSubnetRefs(d))
          EXCEPT !.dependsOn = InServiceDependsOn,
                 !.subnets = InSubnets(d), !.port = 8080,
                 !.container_name = "chat-app"]>>

InfraPlan(d) ==
    [error |-> None,
     requests |->
        InNetwork(d)
        \o <<[Req("chat-web-sg", "SecurityGroup", InVpcRefs(d))
                 EXCEPT !.vpc = InVpcId(d)],
             Req("chat-cluster", "Cluster", {}),
             [Req("chat-app-lb", "LoadBalancer",
                  {"chat-web-sg"} \cup InSubnetRefs(d))
                 EXCEPT !.subnets = InSubnets(d)],
             [Req("chat-app-tg", "TargetGroup", InVpcRefs(d))
                 EXCEPT !.vpc = InVpcId(d), !.port = 80, !.protocol = "HTTP"]>>
        \o InListeners(d)
        \o <<Req("chat-task-exec-role", "Role", {}),
             Req("chat-task-exec-policy", "RolePolicyAttachment",
                 {"chat-task-exec-role"}),
             Req("chat-app-loggrp", "LogGroup", {})>>
        \o InImage(d) \o InTaskDefinition \o InService(d)]

\* the plan of the program the descriptor is handed to
Plan(d) ==
    CASE d.component = "ContainerApp" -> ContainerAppPlan(d)
      [] d.component = "ChatbotService" -> ChatbotServicePlan(d)
      [] d.component = "Infra" -> InfraPlan(d)

(***************************************************************************)
(* Descriptors                                                             *)
(***************************************************************************)
\* a descriptor: the arguments of the program and what the engine's
\* look-ups return (zones: number of availability-zone names, lb_dns: the
\* DNS name the load balancer resolves to, cred_parts: the number of parts
\* the decoded registry token splits into)
Descriptor(c, ap, im, vp, sn, ce, en, se, au, zn, dn) ==
    [component |-> c, app_path |-> ap, image |-> im, app_port |-> 8080,
     vpc_id |-> vp, public_subnet_ids |-> sn, alb_cert_arn |-> ce,
     env |-> en, secrets |-> se, enable_autoscaling |-> au,
     zones |-> zn, lb_dns |-> dn, cred_parts |-> 2]

ContainerAppDescriptors ==
    {[Descriptor("ContainerApp", ap, im, vp, sn, ce, en, se, FALSE, zn, dn)
         EXCEPT !.app_port = po, !.cred_parts = cp] :
        ap \in {None, "../app"}, im \in {None, "repo@sha256:deadbeef"},
        vp \in {None, "vpc-1"}, sn \in SubnetIdLists,
        ce \in {None, "arn:cert"}, en \in KeySeqs, se \in KeySeqs,
        zn \in ZoneCounts, dn \in DnsNames, po \in Ports, cp \in CredParts}

ChatbotServiceDescriptors ==
    {Descriptor("ChatbotService", None, "repo@sha256:deadbeef", vp, sn, None,
                en, se, au, zn, dn) :
        vp \in {None, "vpc-1"}, sn \in SubnetIdLists, en \in KeySeqs,
        se \in KeySeqs, au \in BOOLEAN, zn \in ZoneCounts, dn \in DnsNames}

InfraDescriptors ==
    {[Descriptor("Infra", "../app", None, vp, sn, ce, <<"MODEL">>, <<>>,
                 FALSE, zn, dn) EXCEPT !.cred_parts = cp] :
        vp \in {None, "vpc-1"}, sn \in SubnetIdLists,
        ce \in {None, "arn:cert"}, zn \in ZoneCounts, dn \in DnsNames,
        cp \in CredParts}

Descriptors ==
    ContainerAppDescriptors \cup ChatbotServiceDescriptors \cup InfraDescriptors

(***************************************************************************)
(* State                                                                   *)
(***************************************************************************)
InitWith(ds) ==
    /\ desc \in ds
    /\ phase = "start"
    /\ error = None
    /\ requests = <<>>
    /\ status = <<>>
    /\ issues = <<>>
    /\ inflightAtFail = {}
    /\ firstFailed = None
    /\ url = Unresolved
    /\ metrics_url = Unresolved
    /\ image_url = Unresolved
    /\ container_def = <<>>
    /\ loaded = JNull
    /\ outcome = None

(***************************************************************************)
(* Deferred outputs                                                        *)
(***************************************************************************)
AwsRegion == "us-west-2"

IdOfKind(k) == requests[CHOOSE i \in OfKind(requests, k) : TRUE].id

\* the attribute attr of the request id as a reader sees it when the
\* requests have the statuses st
Attr(st, id, attr) ==
    IF st[id] = "resolved" THEN id \o "." \o attr ELSE Unresolved

\* image_url when the requests have the statuses st: with a build context
\* the continuation of repository.repository_url formats the Output
\* image_digest into the string
CaImageUrl(d, st) ==
    IF d.app_path # None
    THEN IF st[CaName \o "-repo"] = "resolved"
         THEN Attr(st, CaName \o "-repo", "repository_url") \o "@" \o OutputStr
         ELSE Unresolved
    ELSE d.image

\* secret_arns_map as the container_def continuation receives it
CaSecretArns(d, st) == [k \in Range(d.secrets) |-> Attr(st, k, "arn")]

\* the requests Output.all(image_url, log_group.name, env, secret_arns_map)
\* waits for
CaContainerDefInputs(d) ==
    {CaName \o "-logs"} \cup CaImageUrlRefs(d) \cup Range(d.secrets)

\* the JSON text the container_def continuation returns
CaContainerDefText(d, st) ==
    Dumps(CaContainerJson(
        CaContainerDef(d, CaImageUrl(d, st), Attr(st, CaName \o "-logs", "name"),
                       CaSecretArns(d, st))))

\* the image of the stack program: f"{args[0]}@{args[1]}"
InImageUri(st) ==
    Attr(st, "chat-app-repo", "repository_url") \o "@"
        \o Attr(st, "chat-app-image", "digest")

InContainerDefText(st) ==
    Dumps(InContainerDef(Attr(st, "chat-app-repo", "repository_url"),
                         Attr(st, "chat-app-image", "digest"),
                         Attr(st, "chat-app-loggrp", "name"), InOpenAiApiKey))

\* the image URI of the program's container when the requests have the
\* statuses st
ImageUrlAt(d, st) ==
    CASE d.component = "ContainerApp" -> CaImageUrl(d, st)
      [] d.component = "ChatbotService" -> d.image
      [] d.component = "Infra" ->
            IF \A a \in InContainerDefInputs : st[a] = "resolved"
            THEN InImageUri(st) ELSE Unresolved

\* the container payload handed to the task definition when the requests
\* have the statuses st: the empty text as long as it has not been built
ContainerDefAt(d, st) ==
    CASE d.component = "ContainerApp" ->
            IF \A a \in CaContainerDefInputs(d) : st[a] = "resolved"
            THEN CaContainerDefText(d, st) ELSE <<>>
      [] d.component = "ChatbotService" ->
            RenderContainerDefs(d.image, d.env, d.secrets, CsLogGroupName)
      [] d.component = "Infra" ->
            IF \A a \in InContainerDefInputs : st[a] = "resolved"
            THEN InContainerDefText(st) ELSE <<>>

(***************************************************************************)
(* The program run                                                         *)
(***************************************************************************)
\* running the program: ContainerApp.__init__, ChatbotService.__init__ or
\* the stack program, from its first line to its return or raise
Construct(c) ==
    /\ phase = "start"
    /\ desc.component = c
    /\ LET p == Plan(desc)
           st == [id \in Ids(p.requests) |-> "registered"] IN
         /\ error' = p.error
         /\ requests' = p.requests
         /\ status' = st
         /\ issues' = [id \in Ids(p.requests) |-> 0]
         /\ phase' = IF p.error = None THEN "constructed" ELSE "raised"
         /\ image_url' = IF p.error = None THEN ImageUrlAt(desc, st)
                         ELSE Unresolved
         /\ container_def' = IF p.error = None THEN ContainerDefAt(desc, st)
                             ELSE <<>>
    /\ UNCHANGED <<desc, inflightAtFail, firstFailed, url, metrics_url, loaded,
                   outcome>>

ConstructContainerApp == Construct("ContainerApp")

ConstructChatbotService == Construct("ChatbotService")

RunInfra == Construct("Infra")

\* alb.dns_name as a reader sees it
DnsName(st) == IF st[IdOfKind("LoadBalancer")] = "resolved"
               THEN desc.lb_dns ELSE Unresolved

\* the requests whose outputs self.url / endpoint / endpoint_url is applied to
UrlInputs == {IdOfKind("LoadBalancer")}

\* variant: the scheme ignores the certificate
CaUrlAlwaysHttp(d, dns) == "http://" \o dns

CaUrl(d, dns) ==
    IF d.alb_cert_arn # None THEN "https://" \o dns ELSE "http://" \o dns

CsEndpoint(d, dns) == "http://" \o dns \o "/chat"

InEndpointUrl(d, dns) ==
    IF d.alb_cert_arn # None THEN "https://" \o dns ELSE "http://" \o dns

UrlValue(d, dns) ==
    CASE d.component = "ContainerApp" -> CaUrl(d, dns)
      [] d.component = "ChatbotService" -> CsEndpoint(d, dns)
      [] d.component = "Infra" -> InEndpointUrl(d, dns)

\* variant: the service name is left out of Output.all
CaMetricsUrlInputsClusterOnly == {IdOfKind("Cluster")}

\* the requests whose outputs self.metrics_url is applied to
\* (aws_region is a plain configuration string)
CaMetricsUrlInputs == {IdOfKind("Service"), IdOfKind("Cluster")}

CaMetricsUrl(region, service, cluster) ==
    "https://" \o region \o ".console.aws.amazon.com/ecs/home?region=" \o region
    \o "#/clusters/" \o cluster \o "/services/" \o service \o "/metrics"

\* the outputs the program publishes
RegisteredOutputs(d) ==
    CASE d.component = "ContainerApp" -> {"url", "metricsUrl"}
      [] d.component = "ChatbotService" -> {"endpoint"}
      [] d.component = "Infra" -> {"url"}

PublishedValue(o) == IF o = "metricsUrl" THEN metrics_url ELSE url

(***************************************************************************)
(* The provisioning engine                                                 *)
(***************************************************************************)
Request(id) == requests[CHOOSE i \in DOMAIN requests : requests[i].id = id]

InFlight == {id \in DOMAIN status : status[id] = "issued"}

Ready(id) == \A a \in Deps(Request(id)) : status[a] = "resolved"

\* the engine sends the request to the provider
Issue(id) ==
    /\ phase = "constructed"
    /\ status[id] = "registered"
    /\ Ready(id)
    /\ ~Request(id).raises
    /\ firstFailed = None
    /\ Cardinality(InFlight) < MaxParallel
    /\ status' = [status EXCEPT ![id] = "issued"]
    /\ issues' = [issues EXCEPT ![id] = @ + 1]
    /\ UNCHANGED <<desc, phase, error, requests, inflightAtFail, firstFailed,
                   url, metrics_url, image_url, container_def, loaded, outcome>>

\* self.url / endpoint / endpoint_url once the continuation of
\* alb.dns_name.apply(...) has run: it runs when its inputs have resolved
UrlAfter(st) ==
    IF url # Unresolved THEN url
    ELSE IF \A a \in UrlInputs : st[a] = "resolved"
         THEN UrlValue(desc, DnsName(st))
         ELSE Unresolved

\* variant: the locator is formatted without waiting for its inputs
MetricsUrlAfterEager(st) ==
    IF desc.component # "ContainerApp" THEN metrics_url
    ELSE CaMetricsUrl(AwsRegion, Attr(st, IdOfKind("Service"), "name"),
                      Attr(st, IdOfKind("Cluster"), "name"))

\* self.metrics_url once the continuation of
\* Output.all(aws_region, service.name, cluster.name).apply(...) has run
MetricsUrlAfter(st) ==
    IF desc.component # "ContainerApp" \/ metrics_url # Unresolved
    THEN metrics_url
    ELSE IF \A a \in CaMetricsUrlInputs : st[a] = "resolved"
         THEN CaMetricsUrl(AwsRegion, Attr(st, IdOfKind("Service"), "name"),
                           Attr(st, IdOfKind("Cluster"), "name"))
         ELSE Unresolved

\* image_url once its continuation has run
ImageUrlAfter(st) ==
    IF image_url # Unresolved THEN image_url ELSE ImageUrlAt(desc, st)

\* container_def once the continuation of Output.all(...) has run
ContainerDefAfter(st) ==
    IF container_def # <<>> THEN container_def ELSE ContainerDefAt(desc, st)

\* the provider completes the request: its outputs resolve and the
\* continuations applied to them run
Resolve(id) ==
    /\ phase = "constructed"
    /\ status[id] = "issued"
    /\ ~Request(id).invalid
    /\ status' = [status EXCEPT ![id] = "resolved"]
    /\ url' = UrlAfter(status')
    /\ metrics_url' = MetricsUrlAfter(status')
    /\ image_url' = ImageUrlAfter(status')
    /\ container_def' = ContainerDefAfter(status')
    /\ UNCHANGED <<desc, phase, error, requests, issues, inflightAtFail,
                   firstFailed, loaded, outcome>>

\* variant: a failure aborts the requests in flight
StatusAfterFailAborting(id) ==
    [r \in DOMAIN status |->
        IF r = id THEN "failed"
        ELSE IF status[r] = "issued" THEN "aborted" ELSE status[r]]

StatusAfterFail(id) == [status EXCEPT ![id] = "failed"]

\* the provider reports that the request failed
Fail(id) ==
    /\ phase = "constructed"
    /\ status[id] = "issued"
    /\ status' = StatusAfterFail(id)
    /\ firstFailed' = IF firstFailed = None THEN id ELSE firstFailed
    /\ inflightAtFail' = IF firstFailed = None THEN InFlight \ {id}
                         ELSE inflightAtFail
    /\ UNCHANGED <<desc, phase, error, requests, issues, url, metrics_url,
                   image_url, container_def, loaded, outcome>>

\* the continuation that builds the parameters of the request raises: the
\* request is never sent and the deployment fails on it
Raise(id) ==
    /\ phase = "constructed"
    /\ status[id] = "registered"
    /\ Request(id).raises
    /\ status' = StatusAfterFail(id)
    /\ firstFailed' = IF firstFailed = None THEN id ELSE firstFailed
    /\ inflightAtFail' = IF firstFailed = None THEN InFlight
                         ELSE inflightAtFail
    /\ UNCHANGED <<desc, phase, error, requests, issues, url, metrics_url,
                   image_url, container_def, loaded, outcome>>

\* the deployment operation ends: with the first failure, or with every
\* request resolved and every published output resolved
Report ==
    /\ phase = "constructed"
    /\ InFlight = {}
    /\ \/ /\ firstFailed # None
          /\ outcome' = <<"ProvisioningError", firstFailed>>
       \/ /\ firstFailed = None
          /\ \A id \in DOMAIN status : status[id] = "resolved"
          /\ \A o \in RegisteredOutputs(desc) : PublishedValue(o) # Unresolved
          /\ outcome' = <<"succeeded", None>>
    /\ phase' = "done"
    /\ UNCHANGED <<desc, error, requests, status, issues, inflightAtFail,
                   firstFailed, url, metrics_url, image_url, container_def,
                   loaded>>

(***************************************************************************)
(* Specifications                                                          *)
(***************************************************************************)
\* the optional concerns a descriptor switches on
Concerns(d) ==
    {c \in {"network", "tls", "build", "secrets", "autoscaling"} :
        CASE c = "network" -> d.vpc_id = None
          [] c = "tls" -> d.alb_cert_arn # None
          [] c = "build" -> d.app_path # None
          [] c = "secrets" -> d.secrets # <<>>
          [] c = "autoscaling" -> d.enable_autoscaling}

\* the descriptors the engine is run on: the network is either supplied
\* whole or absent (absent for ChatbotService only, whose network is a Vpc
\* and a Subnet), and apart from the image build of the stack program at
\* most one optional concern is switched on at a time
ExecDescriptors ==
    {d \in Descriptors :
        /\ d.zones = 2
        /\ d.app_port = 8080
        /\ ValidCredentials(d.cred_parts) \/ d.cred_parts = 3
        /\ ValidCredentials(d.cred_parts) \/ d.lb_dns = "example-dns"
        /\ d.env = <<"MODEL">>
        /\ d.secrets \in {<<>>, <<"OPENAI_API_KEY">>}
        /\ d.lb_dns = "example-dns" \/ Concerns(d) \subseteq {"tls"}
        /\ d.public_subnet_ids # <<"subnet-a">>
        /\ (d.vpc_id = None) = (d.public_subnet_ids = <<>>)
        /\ ~(d.app_path # None /\ d.image # None)
        /\ Cardinality(Concerns(d) \ (IF d.component = "Infra"
                                      THEN {"build"} ELSE {})) <= 1
        /\ d.component \in {"ContainerApp", "Infra"} => d.vpc_id # None}

Init == InitWith(ExecDescriptors)

Next ==
    \/ ConstructContainerApp
    \/ ConstructChatbotService
    \/ RunInfra
    \/ \E id \in DOMAIN status : Issue(id)
    \/ \E id \in DOMAIN status : Resolve(id)
    \/ \E id \in DOMAIN status : Fail(id)
    \/ \E id \in DOMAIN status : Raise(id)
    \/ Report

Spec == Init /\ [][Next]_vars

\* the container payload alone, as a function of resolved inputs
Images == {"repo@sha256:deadbeef",
           "111122223333.dkr.ecr.us-west-2.amazonaws.com/chatbot:1.2.0"}

PayloadDescriptors ==
    {d \in {[Descriptor(c, None, im, "vpc-1", <<"subnet-a", "subnet-b">>, None,
                        en, se, FALSE, 2, "example-dns")
                EXCEPT !.app_port = po] :
                c \in {"ContainerApp", "ChatbotService"}, im \in Images,
                en \in KeySeqs, se \in KeySeqs, po \in Ports} :
        d.component = "ChatbotService" => d.app_port = 8080}

\* every request of the plan of d has resolved
AllResolved(d) == [id \in Ids(Plan(d).requests) |-> "resolved"]

\* the continuation of container_def runs on resolved inputs
RenderContainerApp ==
    /\ phase = "start"
    /\ desc.component = "ContainerApp"
    /\ container_def' = CaContainerDefText(desc, AllResolved(desc))
    /\ phase' = "rendered"
    /\ UNCHANGED <<desc, error, requests, status, issues, inflightAtFail,
                   firstFailed, url, metrics_url, image_url, loaded, outcome>>

\* _render_container_defs is called with a log-group name that is a str
RenderChatbotService ==
    /\ phase = "start"
    /\ desc.component = "ChatbotService"
    /\ container_def' = RenderContainerDefs(desc.image, desc.env, desc.secrets,
                                            CsName \o "-logs.name")
    /\ phase' = "rendered"
    /\ UNCHANGED <<desc, error, requests, status, issues, inflightAtFail,
                   firstFailed, url, metrics_url, image_url, loaded, outcome>>

\* the reader of the payload deserialises it
LoadContainerDef ==
    /\ phase = "rendered"
    /\ loaded' = Loads(container_def)
    /\ phase' = "loaded"
    /\ UNCHANGED <<desc, error, requests, status, issues, inflightAtFail,
                   firstFailed, url, metrics_url, image_url, container_def,
                   outcome>>

InitPayload == InitWith(PayloadDescriptors)

NextPayload ==
    \/ RenderContainerApp
    \/ RenderChatbotService
    \/ LoadContainerDef

SpecPayload == InitPayload /\ [][NextPayload]_vars

\* planning alone, over every descriptor
InitPlan == InitWith(Descriptors)

NextPlan ==
    \/ ConstructContainerApp
    \/ ConstructChatbotService
    \/ RunInfra

SpecPlan == InitPlan /\ [][NextPlan]_vars

(***************************************************************************)
(* Properties                                                              *)
(***************************************************************************)
Constructed == phase \in {"constructed", "done"}

Issued(id) == status[id] \in {"issued", "resolved", "failed"}

Resolved(id) == status[id] = "resolved"

KindsIn(ks) == {i \in DOMAIN requests : requests[i].kind \in ks}

NetworkKinds == {"Vpc", "Subnet", "InternetGateway", "RouteTable",
                 "RouteTableAssociation"}

RECURSIVE TransDeps(_, _)
TransDeps(reqs, S) ==
    LET next == S \cup UNION {Deps(reqs[j]) : j \in {k \in DOMAIN reqs : reqs[k].id \in S}}
    IN IF next = S THEN S ELSE TransDeps(reqs, next)

Acyclic(reqs) ==
    \A i \in DOMAIN reqs : reqs[i].id \notin TransDeps(reqs, Deps(reqs[i]))

\* C1: a ContainerApp descriptor with app_path and image both set, or both
\* unset, is rejected with the construction error, and no request has been
\* registered or issued when it is raised
C1_BothOrNeitherRejected ==
    (/\ desc.component = "ContainerApp"
     /\ phase # "start"
     /\ (desc.app_path # None) = (desc.image # None))
    => /\ error = "ValueError"
       /\ requests = <<>>
       /\ \A id \in DOMAIN issues : issues[id] = 0

\* C2: a ContainerApp descriptor with a key in both env and secrets is
\* rejected with KeyCollision before any request is registered, and the
\* container payload never lists one name in both environment and secrets
C2_KeyCollisionRejected ==
    (/\ desc.component = "ContainerApp"
     /\ phase # "start"
     /\ Range(desc.env) \cap Range(desc.secrets) # {})
    => /\ error = "KeyCollision"
       /\ requests = <<>>
       /\ LET c == CaContainerDef(desc, "image", "logs",
                                  [k \in Keys |-> Ref(k, "arn")])[1]
          IN {c.environment[i].name : i \in DOMAIN c.environment}
               \cap {c.secrets[i].name : i \in DOMAIN c.secrets} = {}

\* C3: in ContainerApp and the stack program the dependency relation of
\* the plan has no cycle; a request that has been issued has every request
\* it lists in dependsOn or takes a parameter from resolved; the Service has
\* been issued only with the LoadBalancer, TargetGroup, TaskDefinition,
\* Cluster and SecurityGroup resolved
C3_IssuedAfterDependencies ==
    (Constructed /\ desc.component \in {"ContainerApp", "Infra"}) =>
       /\ Acyclic(requests)
       /\ \A i \in DOMAIN requests :
             Issued(requests[i].id) =>
                \A a \in References(requests[i]) :
                   a \in DOMAIN status /\ Resolved(a)
       /\ Issued(IdOfKind("Service"))
          => \A k \in {"LoadBalancer", "TargetGroup", "TaskDefinition",
                       "Cluster", "SecurityGroup"} : Resolved(IdOfKind(k))

C5_FailureLeavesBranchesRunning ==
    Constructed =>
       /\ \A id \in DOMAIN status :
             /\ issues[id] <= 1
             /\ status[id] \in {"registered", "issued", "resolved", "failed"}
       /\ firstFailed # None =>
             \A id \in inflightAtFail :
                /\ Issued(id)
                /\ firstFailed \notin TransDeps(requests, Deps(Request(id)))
       /\ (phase = "done" /\ firstFailed # None) =>
             /\ outcome = <<"ProvisioningError", firstFailed>>
             /\ issues[firstFailed] =
                   (IF Request(firstFailed).raises THEN 0 ELSE 1)
             /\ \A id \in inflightAtFail : status[id] \in {"resolved", "failed"}

C5_Witness ==
    /\ phase = "done"
    /\ firstFailed # None
    /\ \E id \in inflightAtFail : status[id] = "resolved"

\* C6: metrics_url of ContainerApp is resolved only when the Service and
\* the Cluster have resolved, and then it is the dashboard locator built
\* from the region and their resolved names; it is never a string built
\* from an unresolved name
C6_MetricsUrlAfterInputs ==
    (Constructed /\ desc.component = "ContainerApp"
        /\ metrics_url # Unresolved)
    => /\ Resolved(IdOfKind("Service"))
       /\ Resolved(IdOfKind("Cluster"))
       /\ metrics_url =
             CaMetricsUrl(AwsRegion, IdOfKind("Service") \o ".name",
                          IdOfKind("Cluster") \o ".name")

C6_Witness ==
    /\ phase = "constructed"
    /\ desc.component = "ContainerApp"
    /\ metrics_url # Unresolved
    /\ \E id \in DOMAIN status : status[id] # "resolved"

\* C7 as stated: the service URL of ContainerApp and the endpoint of
\* ChatbotService, once resolved, is "https://" followed by the DNS name
\* when a certificate is configured and "http://" followed by it otherwise,
\* with nothing after it, and it is resolved only with the LoadBalancer
\* resolved
C7_SchemeAndDnsOnly ==
    (Constructed /\ desc.component \in {"ContainerApp", "ChatbotService"}
        /\ url # Unresolved)
    => /\ Resolved(IdOfKind("LoadBalancer"))
       /\ url = (IF desc.alb_cert_arn # None THEN "https://" ELSE "http://")
                \o desc.lb_dns

\* C7 amended: the url of ContainerApp and of the stack program, once
\* resolved, is "https://" followed by the DNS name when a certificate is
\* configured and "http://" followed by it otherwise with nothing after it;
\* the endpoint of ChatbotService is "http://" followed by the DNS name and
\* "/chat"; each is resolved only with the LoadBalancer resolved
C7_ServiceUrl ==
    (Constructed /\ url # Unresolved)
    => /\ Resolved(IdOfKind("LoadBalancer"))
       /\ desc.component \in {"ContainerApp", "Infra"} =>
             url = (IF desc.alb_cert_arn # None THEN "https://" ELSE "http://")
                   \o desc.lb_dns
       /\ desc.component = "ChatbotService" =>
             url = "http://" \o desc.lb_dns \o "/chat"

C7_Witness ==
    /\ phase = "constructed"
    /\ desc.component = "ContainerApp"
    /\ desc.alb_cert_arn # None
    /\ url = "https://" \o desc.lb_dns

\* C8: when a network id and a non-empty subnet id list are both supplied,
\* the plan holds no Vpc, Subnet, InternetGateway, RouteTable or
\* RouteTableAssociation request, no request references one, and the
\* SecurityGroup, TargetGroup, LoadBalancer and Service carry exactly the
\* supplied network id and subnet ids
C8_SuppliedNetworkReused ==
    (Constructed /\ desc.vpc_id # None /\ desc.public_subnet_ids # <<>>)
    => /\ KindsIn(NetworkKinds) = {}
       /\ \A i \in KindsIn({"SecurityGroup", "TargetGroup"}) :
             requests[i].vpc = desc.vpc_id
       /\ \A i \in KindsIn({"LoadBalancer", "Service"}) :
             requests[i].subnets = desc.public_subnet_ids
       /\ \A k \in {"SecurityGroup", "TargetGroup", "LoadBalancer", "Service"} :
             Cardinality(OfKind(requests, k)) = 1

C8_Witness ==
    /\ phase = "constructed"
    /\ desc.component = "ContainerApp"
    /\ desc.vpc_id # None
    /\ desc.public_subnet_ids = <<"subnet-a">>
    /\ OfKind(requests, "Service") # {}

\* C9: when no network is supplied the plan holds exactly two Subnet
\* requests, each of which waits only for the network and route-table
\* requests and not for the other subnet
C9_TwoIndependentSubnets ==
    (Constructed /\ desc.vpc_id = None /\ desc.public_subnet_ids = <<>>)
    => /\ Cardinality(OfKind(requests, "Subnet")) = 2
       /\ \A i \in OfKind(requests, "Subnet") :
             Deps(requests[i]) \subseteq
                {requests[j].id : j \in KindsIn({"Vpc", "RouteTable"})}

\* C10: with a certificate set the plan holds exactly one HTTPS listener,
\* bound to that certificate, and exactly one HTTP listener, which
\* redirects to HTTPS with status 301; without one it holds exactly one
\* HTTP listener, which forwards to the target group, and no HTTPS listener
C10_Listeners ==
    Constructed =>
       LET https == {i \in OfKind(requests, "Listener") :
                        requests[i].protocol = "HTTPS"}
           http == {i \in OfKind(requests, "Listener") :
                        requests[i].protocol = "HTTP"}
       IN /\ https \cup http = OfKind(requests, "Listener")
          /\ Cardinality(http) = 1
          /\ IF desc.alb_cert_arn # None
             THEN /\ Cardinality(https) = 1
                  /\ \A i \in https : requests[i].cert = desc.alb_cert_arn
                  /\ \A i \in http :
                        requests[i].action = "redirect:HTTPS:443:HTTP_301"
             ELSE /\ https = {}
                  /\ \A i \in http :
                        /\ requests[i].action = "forward"
                        /\ OfKind(requests, "TargetGroup") # {}
                        /\ IdOfKind("TargetGroup") \in requests[i].refs

C10_Witness ==
    /\ phase = "constructed"
    /\ desc.component = "ContainerApp"
    /\ desc.alb_cert_arn # None
    /\ Cardinality(OfKind(requests, "Listener")) = 2

\* C11: with a build context the ImageBuild request is issued only after the
\* repository creation and then the credential exchange have completed, in
\* that order, and the image URI resolves, to the repository URL combined
\* with the digest of the build, only after the build has resolved; with a
\* prebuilt image reference the image URI is that literal from the start
\* and no Repository, CredentialExchange or ImageBuild request is planned
C11_ImageBuildOrder ==
    (Constructed /\ desc.component \in {"ContainerApp", "Infra"}) =>
        IF desc.app_path # None
        THEN LET repo == IdOfKind("Repository")
                 cred == IdOfKind("CredentialExchange")
                 build == IdOfKind("ImageBuild")
             IN /\ Issued(cred) => Resolved(repo)
                /\ Issued(build) => Resolved(repo) /\ Resolved(cred)
                /\ image_url # Unresolved =>
                      /\ Resolved(build)
                      /\ image_url = Attr(status, repo, "repository_url")
                                        \o "@" \o Attr(status, build, "digest")
        ELSE /\ image_url = desc.image
             /\ KindsIn({"Repository", "CredentialExchange", "ImageBuild"}) = {}

\* C12: ContainerApp plans, for every entry of secrets, exactly one Secret
\* and one SecretVersion tied to it; it plans the secrets-access Policy and
\* its attachment to the task role if and only if secrets is not empty, and
\* the resources the policy lists are exactly the ARNs of all the Secrets
C12_SecretsAndPolicy ==
    (Constructed /\ desc.component = "ContainerApp") =>
        LET secrets == OfKind(requests, "Secret")
            versions == OfKind(requests, "SecretVersion")
            policies == OfKind(requests, "Policy")
            attachments ==
                {i \in OfKind(requests, "RolePolicyAttachment") :
                    \E p \in policies : requests[p].id \in requests[i].refs}
        IN /\ Cardinality(secrets) = Len(desc.secrets)
           /\ Cardinality(versions) = Len(desc.secrets)
           /\ \A k \in Range(desc.secrets) :
                 /\ Cardinality({i \in secrets : requests[i].id = k}) = 1
                 /\ Cardinality({i \in versions :
                        /\ requests[i].secret_id = Ref(k, "id")
                        /\ requests[i].refs = {k}}) = 1
           /\ Cardinality(policies) = (IF desc.secrets # <<>> THEN 1 ELSE 0)
           /\ Cardinality(attachments) = Cardinality(policies)
           /\ \A i \in attachments :
                 CaName \o "-task-exec-role" \in requests[i].refs
           /\ \A p \in policies :
                 /\ Range(requests[p].resources)
                        = {Ref(requests[i].id, "arn") : i \in secrets}
                 /\ requests[p].refs = {requests[i].id : i \in secrets}

\* two secrets, and the policy and its attachment are planned
C12_Witness ==
    /\ Constructed
    /\ desc.component = "ContainerApp"
    /\ Len(desc.secrets) = 2
    /\ OfKind(requests, "Policy") # {}
    /\ Cardinality(OfKind(requests, "SecretVersion")) = 2

\* C13: ChatbotService plans the AutoscalingTarget if and only if
\* enable_autoscaling is set; when planned it is issued only after the id
\* of the Service has resolved, and its resource id is formatted only from
\* the resolved names of the cluster and of the service
C13_AutoscalingTarget ==
    (Constructed /\ desc.component = "ChatbotService") =>
        LET targets == OfKind(requests, "AutoscalingTarget")
            cluster == IdOfKind("Cluster")
            svc == IdOfKind("Service")
        IN /\ (targets # {}) = desc.enable_autoscaling
           /\ \A i \in targets :
                 /\ Issued(requests[i].id) => Resolved(svc)
                 /\ requests[i].parts = <<"service/", Ref(cluster, "name"),
                                          "/", Ref(svc, "id")>>

\* the ARN the payload is given for the secret k
SecretArnGiven(d, k) ==
    IF d.component = "ContainerApp" THEN CaSecretArns(d, AllResolved(d))[k]
    ELSE CsSecretArn(k)

\* C14: serialising the container payload and deserialising the text gives
\* an array of one object whose keys are exactly name, image, essential,
\* portMappings, environment, secrets and logConfiguration, whose
\* environment is the env entries as name/value pairs in insertion order
\* and whose secrets is the secret entries as name/valueFrom pairs in
\* insertion order
C14_PayloadRoundTrip ==
    phase = "loaded" =>
        /\ loaded.t = "arr"
        /\ Len(loaded.v) = 1
        /\ loaded.v[1].t = "obj"
        /\ Len(loaded.v[1].v) = 7
        /\ KeysOf(loaded.v[1]) = {"name", "image", "essential", "portMappings",
                                  "environment", "secrets", "logConfiguration"}
        /\ Get(loaded.v[1], "environment") =
              JArr([i \in DOMAIN desc.env |->
                  JObj(<<Member("name", JStr(desc.env[i])),
                         Member("value", JStr("value-of-" \o desc.env[i]))>>)])
        /\ Get(loaded.v[1], "secrets") =
              JArr([i \in DOMAIN desc.secrets |->
                  JObj(<<Member("name", JStr(desc.secrets[i])),
                         Member("valueFrom",
                                JStr(SecretArnGiven(desc, desc.secrets[i])))>>)])

\* a payload with two environment entries and two secrets has been
\* serialised and read back
C14_Witness ==
    /\ phase = "loaded"
    /\ Len(desc.env) = 2
    /\ Len(desc.secrets) = 2
    /\ Len(container_def) > 7
    /\ loaded.t = "arr"

\* C15: whenever the decoded registry credentials do not split into exactly
\* two parts the credential exchange fails and the deployment ends in a
\* failure; the ImageBuild request and every request that depends on the
\* image URI (the TaskDefinition and the Service) are never issued, and no
\* other request is aborted because of it
C15_CredentialExchangeFailure ==
    (/\ Constructed
     /\ desc.component \in {"ContainerApp", "Infra"}
     /\ desc.app_path # None
     /\ ~ValidCredentials(desc.cred_parts)) =>
        /\ ~Resolved(IdOfKind("CredentialExchange"))
        /\ phase = "done" => outcome[1] = "ProvisioningError"
        /\ ~Issued(IdOfKind("ImageBuild"))
        /\ ~Issued(IdOfKind("TaskDefinition"))
        /\ ~Issued(IdOfKind("Service"))
        /\ \A id \in DOMAIN status : status[id] # "aborted"

\* C16: in both TLS configurations every planned listener, the redirecting
\* HTTP listener included, depends on both the Target Group and the Load
\* Balancer, so that none is issued before both have resolved
C16_ListenersAfterBoth ==
    (Constructed /\ desc.component \in {"ContainerApp", "Infra"}) =>
        \A i \in OfKind(requests, "Listener") :
            /\ {IdOfKind("LoadBalancer"), IdOfKind("TargetGroup")}
                  \subseteq Deps(requests[i])
            /\ Issued(requests[i].id) =>
                  /\ Resolved(IdOfKind("LoadBalancer"))
                  /\ Resolved(IdOfKind("TargetGroup"))

\* C16 as the code has it: a listener that forwards (the HTTPS listener
\* and the forwarding HTTP listener) depends on both the Target Group and
\* the Load Balancer and is issued only after both have resolved; the
\* redirecting HTTP listener depends on the Load Balancer alone and is
\* issued only after it has resolved
C16_ListenerDependencies ==
    (Constructed /\ desc.component \in {"ContainerApp", "Infra"}) =>
        \A i \in OfKind(requests, "Listener") :
            IF requests[i].action = "forward"
            THEN /\ {IdOfKind("LoadBalancer"), IdOfKind("TargetGroup")}
                       \subseteq Deps(requests[i])
                 /\ Issued(requests[i].id) =>
                       /\ Resolved(IdOfKind("LoadBalancer"))
                       /\ Resolved(IdOfKind("TargetGroup"))
            ELSE /\ Deps(requests[i]) = {IdOfKind("LoadBalancer")}
                 /\ Issued(requests[i].id) => Resolved(IdOfKind("LoadBalancer"))

\* with a certificate, both listeners have been issued
C16_Witness ==
    /\ Constructed
    /\ desc.component \in {"ContainerApp", "Infra"}
    /\ desc.alb_cert_arn # None
    /\ Cardinality(OfKind(requests, "Listener")) = 2
    /\ \A i \in OfKind(requests, "Listener") : Issued(requests[i].id)

\* the image URI made of resolved values only
ResolvedImageUri ==
    IF desc.component = "ContainerApp" /\ desc.app_path # None
    THEN Attr(status, IdOfKind("Repository"), "repository_url")
             \o "@" \o Attr(status, IdOfKind("ImageBuild"), "digest")
    ELSE desc.image

\* C17: the TaskDefinition is issued only after the image URI, the
\* log-group name and every secret ARN have resolved, and the container
\* payload it receives is built from those resolved values only: building
\* it never meets an unresolved value, and its image, its log group and its
\* secret ARNs are the resolved ones, never a placeholder
C17_PayloadFromResolvedValues ==
    (Constructed /\ desc.component \in {"ContainerApp", "ChatbotService"}) =>
        LET task == IdOfKind("TaskDefinition")
            logs == IdOfKind("LogGroup")
            secrets == {requests[i].id : i \in OfKind(requests, "Secret")}
        IN /\ ~Request(task).raises
           /\ Issued(task) =>
                 /\ container_def # <<>>
                 /\ Resolved(logs)
                 /\ \A s \in secrets : Resolved(s)
           /\ container_def # <<>> =>
                 LET c == Loads(container_def).v[1]
                 IN /\ Get(c, "image") = JStr(ResolvedImageUri)
                    /\ Get(Get(Get(c, "logConfiguration"), "options"),
                           "awslogs-group") = JStr(logs \o ".name")
                    /\ \A s \in Range(Get(c, "secrets").v) :
                          Get(s, "valueFrom") \in
                              {JStr(k \o ".arn") : k \in secrets}
                              \cup {JStr(CsSecretArn(k)) : k \in Range(desc.secrets)}

\* C18: for every descriptor of ContainerApp the payload holds a single
\* container that maps app_port on the container side and on the host
\* side, and the load-balancer binding of the Service names that container
\* and that port, which is also the port of the Target Group
C18_PortAndNameAgree ==
    (Constructed /\ desc.component = "ContainerApp") =>
        LET payload ==
                Loads(CaContainerDefText(
                    desc, [id \in DOMAIN status |-> "resolved"]))
            service == Request(IdOfKind("Service"))
            target_group == Request(IdOfKind("TargetGroup"))
        IN /\ Len(payload.v) = 1
           /\ Get(payload.v[1], "portMappings").v =
                 <<JObj(<<Member("containerPort", JNum(desc.app_port)),
                          Member("hostPort", JNum(desc.app_port)),
                          Member("protocol", JStr("tcp"))>>)>>
           /\ JStr(service.container_name) = Get(payload.v[1], "name")
           /\ service.port = desc.app_port
           /\ target_group.port = desc.app_port

\* a plan for a port other than the default one
C18_Witness ==
    /\ Constructed
    /\ desc.component = "ContainerApp"
    /\ desc.app_port = 80
    /\ OfKind(requests, "Service") # {}
    /\ OfKind(requests, "TargetGroup") # {}

====
